---- MODULE Spec2Model ----
(***************************************************************************)
(* Model of DownloadImagesOnPage: the download orchestrator                *)
(* (orchestrator.py), the unique-filename resolver (file_manager.py) and   *)
(* the size filter (filter.py).                                            *)
(*                                                                         *)
(* A file name is a sequence of one-character strings; a directory is the  *)
(* set of the file names it contains.  An optional value is <<>> (None) or *)
(* a one-element tuple; image dimensions are the pair <<width, height>>    *)
(* (ImageDimensions is a NamedTuple) or <<>> when decoding failed.         *)
(***************************************************************************)
EXTENDS Integers, Sequences, FiniteSets, TLC

\* ------------------------------------------------------------------ bounds
MaxCandidates == 3
MaxCycles == 3
MaxDim == 2

\* ------------------------------------------------------------- primitives
None == <<>>
Some(v) == <<v>>

\* str(n) for a non-negative integer: its decimal digits
Digit(d) == <<"0", "1", "2", "3", "4", "5", "6", "7", "8", "9">>[d + 1]

RECURSIVE str(_)
str(n) == IF n < 10 THEN <<Digit(n)>> ELSE str(n \div 10) \o <<Digit(n % 10)>>

\* str.rfind('.'): 0-based index of the last dot, -1 when there is none
rfind_dot(name) ==
    LET dots == {k \in 1..Len(name) : name[k] = "."}
    IN IF dots = {} THEN -1
       ELSE (CHOOSE k \in dots : \A m \in dots : m <= k) - 1

\* PurePath.suffix of a one-component path (Python 3.11 - 3.13)
suffix_first_dot(name) ==
    LET dots == {k \in 1..Len(name) : name[k] = "."}
        i == IF dots = {} THEN -1
             ELSE (CHOOSE k \in dots : \A m \in dots : k <= m) - 1
    IN IF 0 < i /\ i < Len(name) - 1 THEN SubSeq(name, i + 1, Len(name)) ELSE <<>>

suffix(name) ==
    LET i == rfind_dot(name)
    IN IF 0 < i /\ i < Len(name) - 1 THEN SubSeq(name, i + 1, Len(name)) ELSE <<>>

\* PurePath.stem: the name without its suffix
stem(name) == SubSeq(name, 1, Len(name) - Len(suffix(name)))

\* f"{stem}_{counter}{suffix}"
new_filename(st, counter, suf) == st \o <<"_">> \o str(counter) \o suf

\* Path.exists() for directory / name
exists(directory, name) == name \in directory

\* --------------------------------------------------------- file_manager.py
probe_unchecked(directory, st, suf, counter) == new_filename(st, counter, suf)

\* the probing loop: counter = 1, 2, 3, ... until the numbered name is free
RECURSIVE probe(_, _, _, _)
probe(directory, st, suf, counter) ==
    IF ~exists(directory, new_filename(st, counter, suf))
    THEN new_filename(st, counter, suf)
    ELSE probe(directory, st, suf, counter + 1)

generate_unique_filename_counting(directory, filename) ==
    IF ~exists(directory, filename)
    THEN filename
    ELSE new_filename(stem(filename),
             1 + Cardinality({k \in 1..Cardinality(directory) :
                     exists(directory, new_filename(stem(filename), k, suffix(filename)))}),
             suffix(filename))

\* the name of the path returned by generate_unique_filename(directory, filename)
generate_unique_filename(directory, filename) ==
    IF ~exists(directory, filename)
    THEN filename
    ELSE probe(directory, stem(filename), suffix(filename), 1)

listing_after_resolve_touch(directory, filename) ==
    directory \cup {generate_unique_filename(directory, filename)}

\* the directory listing after generate_unique_filename returned: it only
\* calls Path.exists(), so the listing is the one it was given
listing_after_resolve(directory, filename) == directory

\* the directory listing after save_image wrote file_path successfully
listing_after_save(directory, file_path) == directory \cup {file_path}

\* --------------------------------------------------------------- filter.py
\* image_data is a byte stream; image_data.size is what PIL decodes from it:
\* <<width, height>>, or None when Image.open raises
get_image_dimensions(image_data) == image_data.size

check_image_size_unknown_passes(image_data, min_width, min_height, max_width, max_height) ==
    IF min_width = None /\ min_height = None /\ max_width = None /\ max_height = None
    THEN [passes |-> TRUE, probed |-> FALSE]
    ELSE LET dimensions == get_image_dimensions(image_data)
         IN [probed |-> TRUE,
             passes |->
               IF dimensions = None THEN TRUE
               ELSE IF min_width # None /\ dimensions[1] < min_width[1] THEN FALSE
               ELSE IF min_height # None /\ dimensions[2] < min_height[1] THEN FALSE
               ELSE IF max_width # None /\ dimensions[1] > max_width[1] THEN FALSE
               ELSE IF max_height # None /\ dimensions[2] > max_height[1] THEN FALSE
               ELSE TRUE]

check_image_size_exclusive(image_data, min_width, min_height, max_width, max_height) ==
    IF min_width = None /\ min_height = None /\ max_width = None /\ max_height = None
    THEN [passes |-> TRUE, probed |-> FALSE]
    ELSE LET dimensions == get_image_dimensions(image_data)
         IN [probed |-> TRUE,
             passes |->
               IF dimensions = None THEN FALSE
               ELSE IF min_width # None /\ dimensions[1] <= min_width[1] THEN FALSE
               ELSE IF min_height # None /\ dimensions[2] <= min_height[1] THEN FALSE
               ELSE IF max_width # None /\ dimensions[1] >= max_width[1] THEN FALSE
               ELSE IF max_height # None /\ dimensions[2] >= max_height[1] THEN FALSE
               ELSE TRUE]

\* check_image_size: passes is the returned bool, probed tells whether
\* get_image_dimensions was called
check_image_size(image_data, min_width, min_height, max_width, max_height) ==
    IF min_width = None /\ min_height = None /\ max_width = None /\ max_height = None
    THEN [passes |-> TRUE, probed |-> FALSE]
    ELSE LET dimensions == get_image_dimensions(image_data)
         IN [probed |-> TRUE,
             passes |->
               IF dimensions = None THEN FALSE
               ELSE IF min_width # None /\ dimensions[1] < min_width[1] THEN FALSE
               ELSE IF min_height # None /\ dimensions[2] < min_height[1] THEN FALSE
               ELSE IF max_width # None /\ dimensions[1] > max_width[1] THEN FALSE
               ELSE IF max_height # None /\ dimensions[2] > max_height[1] THEN FALSE
               ELSE TRUE]

\* ------------------------------------------------------------------ state
VARIABLES
    config,          \* CLIConfig: use_playwright and the four optional bounds
    files,           \* names of the files in config.output_dir
    pc,              \* position of run_download
    candidates,      \* image_urls (Static) or rendered_images (Rendered)
    index,           \* 1-based loop index of the candidate being processed
    image_data,      \* bytes of the current candidate, None before they exist
    unique_path,     \* path returned by generate_unique_filename, or None
    success_count,
    failed_count,
    filtered_count,
    total_count,
    result,          \* the returned DownloadResult, None until returned
    outcomes,        \* history: outcome and cause of each processed candidate
    calls,           \* history: FetchErrors raised, number of calls of each
                     \* collaborator, and the index of each download attempt
    files0,          \* history: the directory listing before the run
    touched,         \* history: index of the last candidate a step worked on
    r_pending,       \* resolver scenario: last resolution not yet written
    r_prev,          \* resolver scenario: the resolution before r_pending
    r_cycles,        \* resolver scenario: completed resolve+write cycles
    f_args,          \* filter scenario: arguments of check_image_size
    f_result,        \* filter scenario: value returned, None before the call
    m_pc,            \* main: position of main()
    m_calls,         \* main: the collaborators main has called, in order
    m_raised,        \* main: the exception that ended main's work, or None
    exit_code,       \* main: the value main returned, None before it returns
    summary_logged,  \* main: the "Download complete" line has been logged
    c_pc,            \* capture scenario: position of capture_rendered_images
    c_elements,      \* capture scenario: the img elements of the page
    c_i,             \* capture scenario: loop variable i of range(img_count)
    rendered_images, \* capture scenario: the list being built
    c_kept,          \* capture scenario: history, the i of each appended image
    stream,          \* stream scenario: the BytesIO handed to the size probe
    stream0,         \* stream scenario: history, the stream before the call
    s_result,        \* stream scenario: value returned, None before the call
    p_dir,           \* permutation scenario: the directory before both runs
    p_list,          \* permutation scenario: the candidate list
    p_perm,          \* permutation scenario: a permutation of its indices
    p_names,         \* permutation scenario: the listings after the run on
                     \* p_list and after the run on the permuted list
    e_base,          \* extract scenario: the page URL, base_url
    e_html,          \* extract scenario: the src of each img element of the page
    e_result,        \* extract scenario: the list returned, None before the call
    d_reply,         \* download scenario: what requests.get meets for the URL
    d_outcome,       \* download scenario: how download_image ended, None before
    l_dir,           \* probing scenario: the names present in the directory
    l_name,          \* probing scenario: the filename asked for
    l_counter,       \* probing scenario: counter of the loop, 0 before the loop
    l_path           \* probing scenario: the name returned, None before

ovars == <<config, pc, candidates, index, image_data, unique_path,
           success_count, failed_count, filtered_count, total_count,
           result, outcomes, calls, touched>>
rvars == <<r_pending, r_prev, r_cycles>>
fvars == <<f_args, f_result>>
mvars == <<m_pc, m_calls, m_raised, exit_code, summary_logged>>
cvars == <<c_pc, c_elements, c_i, rendered_images, c_kept>>
svars == <<stream, stream0, s_result>>
pvars == <<p_dir, p_list, p_perm, p_names>>
evars == <<e_base, e_html, e_result>>
dvars == <<d_reply, d_outcome>>
lvars == <<l_dir, l_name, l_counter, l_path>>
xvars == <<mvars, cvars, svars, pvars, evars, dvars, lvars>>
vars == <<ovars, files, files0, rvars, fvars, xvars>>

\* ------------------------------------------------------------ input values
X_JPG == <<"x", ".", "j", "p", "g">>
X_PNG == <<"x", ".", "p", "n", "g">>
ARCHIVE_TAR_GZ == <<"a", ".", "t", "a", "r", ".", "g", "z">>
README == <<"R", "E", "A", "D", "M", "E">>
HIDDEN == <<".", "h", "i", "d", "d", "e", "n">>
TRAILING_DOT == <<"x", ".">>

SeqsUpTo(S, n) == UNION {[1..k -> S] : k \in 0..n}

X_N(n) == new_filename(<<"x">>, n, <<".", "j", "p", "g">>)

\* the last component of a URL path, Path(urlparse(url).path).name; a URL
\* is modelled by this component, empty for a URL whose path has none
StaticUrls == {X_JPG, <<>>}

\* URLs whose names collide with each other's numbered variants
CollidingUrls == {X_JPG, X_N(1)}

\* the lists extract_image_urls may return for a configuration: the
\* colliding names are explored with the size filter off
UrlLists(cfg) ==
    SeqsUpTo(StaticUrls, MaxCandidates) \cup
    (IF cfg.min_width = None /\ cfg.min_height = None /\
        cfg.max_width = None /\ cfg.max_height = None
     THEN SeqsUpTo(CollidingUrls, MaxCandidates) ELSE {})

\* byte streams a download returns: undecodable, or decodable to a size on,
\* below or above the bound value MaxDim
ImageData ==
    { [size |-> None], [size |-> <<MaxDim, MaxDim>>],
      [size |-> <<MaxDim - 1, MaxDim + 1>>], [size |-> <<MaxDim + 1, MaxDim - 1>>] }

\* RenderedImage values returned by capture_rendered_images_sync
RenderedImages ==
    { [filename |-> X_PNG, dimensions |-> <<MaxDim, MaxDim>>,
       image_data |-> [size |-> <<MaxDim, MaxDim>>]],
      [filename |-> X_PNG, dimensions |-> <<MaxDim, MaxDim>>,
       image_data |-> [size |-> <<MaxDim - 1, MaxDim + 1>>]],
      [filename |-> <<"i", "m", "a", "g", "e", "_">> \o str(1) \o <<".", "p", "n", "g">>,
       dimensions |-> <<MaxDim + 1, MaxDim - 1>>,
       image_data |-> [size |-> None]] }

\* configurations of a run: each bound is unset or set to MaxDim, with no
\* bound, exactly one bound or all four bounds set
Configs ==
    { cfg \in [use_playwright : BOOLEAN,
               min_width : {None, Some(MaxDim)}, min_height : {None, Some(MaxDim)},
               max_width : {None, Some(MaxDim)}, max_height : {None, Some(MaxDim)}] :
        Len(cfg.min_width) + Len(cfg.min_height) + Len(cfg.max_width)
            + Len(cfg.max_height) \in {0, 1, 4} }

IdleConfig == [use_playwright |-> FALSE, min_width |-> None, min_height |-> None,
               max_width |-> None, max_height |-> None]
NoCalls == [fetch_error |-> 0, download |-> 0, resolve |-> 0, write |-> 0,
            fetch_html |-> 0, extract_image_urls |-> 0,
            capture_rendered_images_sync |-> 0, downloaded |-> <<>>]

\* main() is not running: run_download is called directly
IdleMain ==
    /\ m_pc = "idle"
    /\ m_calls = <<>>
    /\ m_raised = None
    /\ exit_code = None
    /\ summary_logged = FALSE

IdleCapture ==
    /\ c_pc = "idle"
    /\ c_elements = <<>>
    /\ c_i = 0
    /\ rendered_images = <<>>
    /\ c_kept = <<>>

IdleStream ==
    /\ stream = None
    /\ stream0 = None
    /\ s_result = None

IdlePermutation ==
    /\ p_dir = {}
    /\ p_list = <<>>
    /\ p_perm = <<>>
    /\ p_names = None

IdleExtract ==
    /\ e_base = <<>>
    /\ e_html = <<>>
    /\ e_result = None

IdleDownload ==
    /\ d_reply = None
    /\ d_outcome = None

IdleProbing ==
    /\ l_dir = {}
    /\ l_name = <<>>
    /\ l_counter = 0
    /\ l_path = None

\* --------------------------------------------------------- orchestrator.py
AnyBound(cfg) ==
    cfg.min_width # None \/ cfg.min_height # None \/
    cfg.max_width # None \/ cfg.max_height # None

first_phase_always_download == "download"

\* the first step of an iteration of the loop
first_phase == IF config.use_playwright THEN "filter" ELSE "download"

derive_filename_indexed(candidate, idx) ==
    <<"i", "m", "a", "g", "e", "_">> \o str(idx) \o <<".", "j", "p", "g">>

\* filename = Path(parsed_url.path).name, or image_{index}.jpg when empty;
\* rendered_image.filename in Rendered mode
derive_filename(candidate, idx) ==
    IF config.use_playwright THEN candidate.filename
    ELSE IF candidate = <<>>
         THEN <<"i", "m", "a", "g", "e", "_">> \o str(idx) \o <<".", "j", "p", "g">>
         ELSE candidate

continue_loop_skipping ==
    /\ index' = index + 2
    /\ pc' = IF index + 2 > total_count THEN "summary" ELSE first_phase
    /\ image_data' = None
    /\ unique_path' = None

\* continue: the for loop moves to the next candidate, or ends
continue_loop ==
    /\ index' = index + 1
    /\ pc' = IF index + 1 > total_count THEN "summary" ELSE first_phase
    /\ image_data' = None
    /\ unique_path' = None

record(status, cause) ==
    outcomes' = Append(outcomes, [status |-> status, cause |-> cause, item |-> index])

\* failed_count += 1; continue
count_failed(cause) ==
    /\ failed_count' = failed_count + 1
    /\ UNCHANGED <<success_count, filtered_count>>
    /\ record("Failed", cause)
    /\ continue_loop

count_filtered_and_failed(cause) ==
    /\ filtered_count' = filtered_count + 1
    /\ failed_count' = failed_count + 1
    /\ UNCHANGED success_count
    /\ record("Filtered", cause)
    /\ continue_loop

\* filtered_count += 1; continue
count_filtered(cause) ==
    /\ filtered_count' = filtered_count + 1
    /\ UNCHANGED <<success_count, failed_count>>
    /\ record("Filtered", cause)
    /\ continue_loop

\* success_count += 1, then the end of the loop body
count_success ==
    /\ success_count' = success_count + 1
    /\ UNCHANGED <<failed_count, filtered_count>>
    /\ record("Success", "saved")
    /\ continue_loop

InitRun ==
    /\ config \in Configs
    /\ files \in {{}, {X_JPG, X_PNG}}
    /\ files0 = files
    /\ pc = "start"
    /\ candidates = <<>>
    /\ index = 1
    /\ image_data = None
    /\ unique_path = None
    /\ success_count = 0
    /\ failed_count = 0
    /\ filtered_count = 0
    /\ total_count = 0
    /\ result = None
    /\ outcomes = <<>>
    /\ calls = NoCalls
    /\ touched = 0

acquire_raises_swallowed ==
    /\ pc = "start"
    /\ pc' = "done"
    /\ result' = Some([success_count |-> 0, failed_count |-> 0,
                       filtered_count |-> 0, total_count |-> 0])
    /\ calls' = IF config.use_playwright
                THEN [calls EXCEPT !.fetch_error = @ + 1,
                                   !.capture_rendered_images_sync = @ + 1]
                ELSE [calls EXCEPT !.fetch_error = @ + 1, !.fetch_html = @ + 1]
    /\ UNCHANGED <<touched, config, candidates, index, image_data, unique_path,
                   success_count, failed_count, filtered_count, total_count,
                   outcomes, files, files0, rvars, fvars, xvars>>

\* the initial page acquisition raises FetchError, which run_download
\* does not catch
acquire_raises ==
    /\ pc = "start"
    /\ pc' = "fetch_error"
    /\ calls' = IF config.use_playwright
                THEN [calls EXCEPT !.fetch_error = @ + 1,
                                   !.capture_rendered_images_sync = @ + 1]
                ELSE [calls EXCEPT !.fetch_error = @ + 1, !.fetch_html = @ + 1]
    /\ UNCHANGED <<touched, config, candidates, index, image_data, unique_path,
                   success_count, failed_count, filtered_count, total_count,
                   result, outcomes, files, files0, rvars, fvars, xvars>>

\* the page acquisition raises an exception that is not a FetchError
\* (extract_image_urls failing on the fetched HTML, or the playwright
\* import of capture_rendered_images failing): run_download does not catch it
acquire_raises_unexpected ==
    /\ pc = "start"
    /\ pc' = "raised"
    /\ calls' = IF config.use_playwright
                THEN [calls EXCEPT !.capture_rendered_images_sync = @ + 1]
                ELSE [calls EXCEPT !.fetch_html = @ + 1, !.extract_image_urls = @ + 1]
    /\ UNCHANGED <<touched, config, candidates, index, image_data, unique_path,
                   success_count, failed_count, filtered_count, total_count,
                   result, outcomes, files, files0, rvars, fvars, xvars>>

acquired_without_early_return(list) ==
    /\ pc = "start"
    /\ candidates' = list
    /\ total_count' = Len(list)
    /\ result' = result
    /\ pc' = first_phase
    /\ calls' = IF config.use_playwright
                THEN [calls EXCEPT !.capture_rendered_images_sync = @ + 1]
                ELSE [calls EXCEPT !.fetch_html = @ + 1, !.extract_image_urls = @ + 1]
    /\ UNCHANGED <<config, index, image_data, unique_path, success_count, failed_count,
                   filtered_count, outcomes, touched, files, files0, rvars, fvars, xvars>>

\* acquisition returns the candidate list; counters are set up, or the
\* all-zero result is returned at once for an empty list
acquired(list) ==
    /\ pc = "start"
    /\ candidates' = list
    /\ total_count' = Len(list)
    /\ IF Len(list) = 0
       THEN /\ result' = Some([success_count |-> 0, failed_count |-> 0,
                               filtered_count |-> 0, total_count |-> 0])
            /\ pc' = "done"
       ELSE /\ result' = result
            /\ pc' = first_phase
    /\ calls' = IF config.use_playwright
                THEN [calls EXCEPT !.capture_rendered_images_sync = @ + 1]
                ELSE [calls EXCEPT !.fetch_html = @ + 1, !.extract_image_urls = @ + 1]
    /\ UNCHANGED <<config, index, image_data, unique_path, success_count, failed_count,
                   filtered_count, outcomes, touched, files, files0, rvars, fvars, xvars>>

\* Static mode: fetch_html and extract_image_urls
acquire_static ==
    /\ ~config.use_playwright
    /\ \E list \in UrlLists(config) : acquired(list)

\* Rendered mode: capture_rendered_images_sync
acquire_rendered ==
    /\ config.use_playwright
    /\ \E list \in SeqsUpTo(RenderedImages, MaxCandidates) : acquired(list)

\* download_image(url) returns the bytes
download_ok ==
    /\ pc = "download"
    /\ touched' = index
    /\ \E data \in ImageData : image_data' = data
    /\ pc' = "filter"
    /\ calls' = [calls EXCEPT !.download = @ + 1,
                              !.downloaded = Append(@, index)]
    /\ UNCHANGED <<config, candidates, index, unique_path, success_count,
                   failed_count, filtered_count, total_count, result, outcomes,
                   files, files0, rvars, fvars, xvars>>

download_raises_aborts ==
    /\ pc = "download"
    /\ touched' = index
    /\ calls' = [calls EXCEPT !.download = @ + 1,
                              !.downloaded = Append(@, index)]
    /\ failed_count' = failed_count + 1
    /\ record("Failed", "DownloadError")
    /\ pc' = "summary"
    /\ UNCHANGED <<config, candidates, index, image_data, unique_path,
                   success_count, filtered_count, total_count, result, files,
                   files0, rvars, fvars, xvars>>

download_raises_retrying ==
    /\ pc = "download"
    /\ touched' = index
    /\ calls' = [calls EXCEPT !.download = @ + 1,
                              !.downloaded = Append(@, index)]
    /\ IF \E k \in 1..Len(calls.downloaded) : calls.downloaded[k] = index
       THEN count_failed("DownloadError")
       ELSE UNCHANGED <<pc, index, image_data, unique_path, success_count,
                        failed_count, filtered_count, outcomes>>
    /\ UNCHANGED <<config, candidates, total_count, result, files, files0,
                   rvars, fvars, xvars>>

\* download_image(url) raises DownloadError
download_raises ==
    /\ pc = "download"
    /\ touched' = index
    /\ calls' = [calls EXCEPT !.download = @ + 1,
                              !.downloaded = Append(@, index)]
    /\ count_failed("DownloadError")
    /\ UNCHANGED <<config, candidates, total_count, result, files, files0,
                   rvars, fvars, xvars>>

filter_input_presupplied ==
    IF config.use_playwright
    THEN [size |-> candidates[index].dimensions]
    ELSE image_data

\* the bytes the size filter looks at
filter_input ==
    IF config.use_playwright THEN candidates[index].image_data ELSE image_data

\* the size filter: skipped when no bound is set, else check_image_size
filter_step ==
    /\ pc = "filter"
    /\ touched' = index
    /\ IF AnyBound(config) /\
          ~check_image_size(filter_input, config.min_width, config.min_height,
                            config.max_width, config.max_height).passes
       THEN /\ count_filtered(IF get_image_dimensions(filter_input) = None
                              THEN "unknown_size" ELSE "size")
       ELSE /\ pc' = "resolve"
            /\ UNCHANGED <<index, image_data, unique_path, success_count,
                           failed_count, filtered_count, outcomes>>
    /\ UNCHANGED <<config, candidates, total_count, result, calls, files,
                   files0, rvars, fvars, xvars>>

resolve_step_desired ==
    /\ pc = "resolve"
    /\ touched' = index
    /\ unique_path' = Some(derive_filename(candidates[index], index))
    /\ files' = files
    /\ calls' = [calls EXCEPT !.resolve = @ + 1]
    /\ pc' = "save"
    /\ UNCHANGED <<config, candidates, index, image_data, success_count,
                   failed_count, filtered_count, total_count, result, outcomes,
                   files0, rvars, fvars, xvars>>

resolve_step_stale ==
    /\ pc = "resolve"
    /\ touched' = index
    /\ unique_path' = Some(generate_unique_filename(files0,
                               derive_filename(candidates[index], index)))
    /\ files' = files
    /\ calls' = [calls EXCEPT !.resolve = @ + 1]
    /\ pc' = "save"
    /\ UNCHANGED <<config, candidates, index, image_data, success_count,
                   failed_count, filtered_count, total_count, result, outcomes,
                   files0, rvars, fvars, xvars>>

\* filename derivation and generate_unique_filename
resolve_step ==
    /\ pc = "resolve"
    /\ touched' = index
    /\ unique_path' = Some(generate_unique_filename(files,
                               derive_filename(candidates[index], index)))
    /\ files' = listing_after_resolve(files, derive_filename(candidates[index], index))
    /\ calls' = [calls EXCEPT !.resolve = @ + 1]
    /\ pc' = "save"
    /\ UNCHANGED <<config, candidates, index, image_data, success_count,
                   failed_count, filtered_count, total_count, result, outcomes,
                   files0, rvars, fvars, xvars>>

\* save_image writes the bytes to unique_path
save_ok ==
    /\ pc = "save"
    /\ touched' = index
    /\ files' = listing_after_save(files, unique_path[1])
    /\ calls' = [calls EXCEPT !.write = @ + 1]
    /\ count_success
    /\ UNCHANGED <<config, candidates, total_count, result, files0, rvars, fvars, xvars>>

save_raises_uncounted ==
    /\ pc = "save"
    /\ touched' = index
    /\ \E created \in BOOLEAN :
          files' = IF created THEN files \cup {unique_path[1]} ELSE files
    /\ calls' = [calls EXCEPT !.write = @ + 1]
    /\ record("Failed", "FileWriteError")
    /\ continue_loop
    /\ UNCHANGED <<config, candidates, total_count, result, files0, rvars, fvars, xvars,
                   success_count, failed_count, filtered_count>>

\* save_image raises FileWriteError; write_bytes may have created the file
\* before it failed
save_raises ==
    /\ pc = "save"
    /\ touched' = index
    /\ \E created \in BOOLEAN :
          files' = IF created THEN files \cup {unique_path[1]} ELSE files
    /\ calls' = [calls EXCEPT !.write = @ + 1]
    /\ count_failed("FileWriteError")
    /\ UNCHANGED <<config, candidates, total_count, result, files0, rvars, fvars, xvars>>

\* any other Exception raised inside the try block by a collaborator
unexpected_exception ==
    /\ pc \in {"download", "resolve", "save"}
    /\ touched' = index
    /\ calls' = [calls EXCEPT !.download = IF pc = "download" THEN @ + 1 ELSE @,
                              !.downloaded = IF pc = "download" THEN Append(@, index) ELSE @,
                              !.resolve = IF pc = "resolve" THEN @ + 1 ELSE @]
    /\ count_failed("Exception")
    /\ UNCHANGED <<config, candidates, total_count, result, files, files0,
                   rvars, fvars, xvars>>

keyboard_interrupt_recorded ==
    /\ pc \in {"download", "filter", "resolve", "save"}
    /\ touched' = index
    /\ pc' = "interrupted"
    /\ failed_count' = failed_count + 1
    /\ record("Failed", "KeyboardInterrupt")
    /\ UNCHANGED <<config, candidates, index, image_data, unique_path,
                   success_count, filtered_count, total_count,
                   result, calls, files, files0, rvars, fvars, xvars>>

\* KeyboardInterrupt is not an Exception: no handler of the loop catches it
keyboard_interrupt ==
    /\ pc \in {"download", "filter", "resolve", "save"}
    /\ touched' = index
    /\ pc' = "interrupted"
    /\ UNCHANGED <<config, candidates, index, image_data, unique_path,
                   success_count, failed_count, filtered_count, total_count,
                   result, outcomes, calls, files, files0, rvars, fvars, xvars>>

\* after the loop: build and return the DownloadResult
return_result ==
    /\ pc = "summary"
    /\ result' = Some([success_count |-> success_count,
                       failed_count |-> failed_count,
                       filtered_count |-> filtered_count,
                       total_count |-> total_count])
    /\ pc' = "done"
    /\ UNCHANGED <<touched, config, candidates, index, image_data, unique_path,
                   success_count, failed_count, filtered_count, total_count,
                   outcomes, calls, files, files0, rvars, fvars, xvars>>

IdleScenarios ==
    /\ r_pending = None
    /\ r_prev = None
    /\ r_cycles = <<>>
    /\ f_args = None
    /\ f_result = None
    /\ IdleCapture
    /\ IdleStream
    /\ IdlePermutation /\ IdleExtract /\ IdleDownload /\ IdleProbing

Init == InitRun /\ IdleScenarios /\ IdleMain

Next ==
    \/ acquire_raises
    \/ acquire_raises_unexpected
    \/ acquire_static
    \/ acquire_rendered
    \/ download_ok
    \/ download_raises
    \/ filter_step
    \/ resolve_step
    \/ save_ok
    \/ save_raises
    \/ unexpected_exception
    \/ keyboard_interrupt
    \/ return_result

Spec == Init /\ [][Next]_vars

\* ------------------------------------------------- resolver scenario
\* resolve + write cycles on one directory, as in
\* test_generate_unique_filename_workflow
IdleRun ==
    /\ config = IdleConfig
    /\ pc = "idle"
    /\ candidates = <<>>
    /\ index = 1
    /\ image_data = None
    /\ unique_path = None
    /\ success_count = 0
    /\ failed_count = 0
    /\ filtered_count = 0
    /\ total_count = 0
    /\ result = None
    /\ outcomes = <<>>
    /\ calls = NoCalls
    /\ touched = 0

\* desired filenames of the scenario
ResolverNames == {X_JPG, X_N(1), ARCHIVE_TAR_GZ, README, HIDDEN, TRAILING_DOT}

InitResolver ==
    /\ IdleRun
    /\ \E xs \in SUBSET {X_JPG, X_N(1), X_N(MaxCycles)} :
       \E others \in {{}, {ARCHIVE_TAR_GZ, README, HIDDEN, TRAILING_DOT}} :
          files = xs \cup others
    /\ files0 = files
    /\ r_pending = None
    /\ r_prev = None
    /\ r_cycles = <<>>
    /\ f_args = None
    /\ f_result = None
    /\ IdleMain /\ IdleCapture /\ IdleStream /\ IdlePermutation /\ IdleExtract /\ IdleDownload /\ IdleProbing

\* one call of generate_unique_filename(directory, name)
resolve ==
    /\ pc = "idle"
    /\ Len(r_cycles) < MaxCycles
    /\ \E name \in ResolverNames :
          /\ r_pending' = Some([name |-> name,
                                path |-> generate_unique_filename(files, name),
                                listing |-> files])
          /\ files' = listing_after_resolve(files, name)
    /\ r_prev' = r_pending
    /\ UNCHANGED <<ovars, files0, r_cycles, fvars, xvars>>

\* save_image to the path returned by the last call
write ==
    /\ pc = "idle"
    /\ r_pending # None
    /\ files' = listing_after_save(files, r_pending[1].path)
    /\ r_cycles' = Append(r_cycles, [name |-> r_pending[1].name,
                                     path |-> r_pending[1].path])
    /\ r_pending' = None
    /\ r_prev' = None
    /\ UNCHANGED <<ovars, files0, fvars, xvars>>

NextResolver == resolve \/ write

SpecResolver == InitResolver /\ [][NextResolver]_vars

\* --------------------------------------------------- filter scenario
OptBound == {None} \cup {Some(v) : v \in 1..MaxDim}

FilterData ==
    {[size |-> None]} \cup
    {[size |-> <<w, h>>] : w \in 0..(MaxDim + 1), h \in 0..(MaxDim + 1)}

InitFilter ==
    /\ IdleRun
    /\ files = {}
    /\ files0 = {}
    /\ r_pending = None
    /\ r_prev = None
    /\ r_cycles = <<>>
    /\ f_args \in [image_data : FilterData, min_width : OptBound,
                   min_height : OptBound, max_width : OptBound,
                   max_height : OptBound]
    /\ f_result = None
    /\ IdleMain /\ IdleCapture /\ IdleStream /\ IdlePermutation /\ IdleExtract /\ IdleDownload /\ IdleProbing

\* one call of check_image_size on the chosen arguments
call_check_image_size ==
    /\ pc = "idle"
    /\ f_args # None
    /\ f_result = None
    /\ f_result' = Some(check_image_size(f_args.image_data, f_args.min_width,
                            f_args.min_height, f_args.max_width, f_args.max_height))
    /\ UNCHANGED <<ovars, files, files0, rvars, f_args, xvars>>

NextFilter == call_check_image_size

SpecFilter == InitFilter /\ [][NextFilter]_vars

\* ------------------------------------------------------------- main.py
\* the codes with which argparse leaves parse_arguments through SystemExit:
\* 0 for --help, 2 for an argument error
SystemExitCodes == {0, 2}

Raised(type, code) == Some([type |-> type, code |-> code])

exit_code_for_lenient(raised) ==
    IF raised = None THEN 0
    ELSE IF raised[1].type = "SystemExit" THEN raised[1].code
    ELSE IF raised[1].type \in {"KeyboardInterrupt", "FetchError"} THEN 0
    ELSE 2

\* the value main returns: 0 after the summary, 0 or 1 for a SystemExit of
\* parse_arguments, and the value of the except clause that caught raised
exit_code_for(raised) ==
    IF raised = None THEN 0
    ELSE IF raised[1].type = "SystemExit"
         THEN (IF raised[1].code = 0 THEN 0 ELSE 1)
    ELSE IF raised[1].type = "FetchError" THEN 2
    ELSE IF raised[1].type = "FileWriteError" THEN 2
    ELSE IF raised[1].type = "KeyboardInterrupt" THEN 0
    ELSE 2

\* the state of run_download other than its position
run_state == <<config, candidates, index, image_data, unique_path,
               success_count, failed_count, filtered_count, total_count,
               result, outcomes, calls, touched>>

\* main() has been entered; run_download has not been called yet
InitMain ==
    /\ config \in Configs
    /\ files \in {{}, {X_JPG, X_PNG}}
    /\ files0 = files
    /\ pc = "uncalled"
    /\ candidates = <<>>
    /\ index = 1
    /\ image_data = None
    /\ unique_path = None
    /\ success_count = 0
    /\ failed_count = 0
    /\ filtered_count = 0
    /\ total_count = 0
    /\ result = None
    /\ outcomes = <<>>
    /\ calls = NoCalls
    /\ touched = 0
    /\ IdleScenarios
    /\ m_pc = "parse"
    /\ m_calls = <<>>
    /\ m_raised = None
    /\ exit_code = None
    /\ summary_logged = FALSE

\* parse_arguments raises SystemExit (--help or an argument error)
parse_arguments_exits ==
    /\ m_pc = "parse"
    /\ \E code \in SystemExitCodes :
          /\ m_raised' = Raised("SystemExit", code)
          /\ exit_code' = Some(exit_code_for(Raised("SystemExit", code)))
    /\ m_calls' = Append(m_calls, "parse_arguments")
    /\ m_pc' = "exited"
    /\ UNCHANGED <<ovars, files, files0, rvars, fvars, summary_logged, cvars, svars, pvars, evars, dvars, lvars>>

\* parse_arguments returns the configuration; logging is set up
parse_arguments_returns ==
    /\ m_pc = "parse"
    /\ m_calls' = m_calls \o <<"parse_arguments", "setup_logging">>
    /\ m_pc' = "ensure"
    /\ UNCHANGED <<ovars, files, files0, rvars, fvars, m_raised, exit_code,
                   summary_logged, cvars, svars, pvars, evars, dvars, lvars>>

ensure_directory_raises_ignored ==
    /\ m_pc = "ensure"
    /\ m_raised' = Raised("FileWriteError", 0)
    /\ m_calls' = m_calls \o <<"ensure_directory", "run_download">>
    /\ m_pc' = "run"
    /\ pc' = "start"
    /\ UNCHANGED <<run_state, files, files0, rvars, fvars, exit_code,
                   summary_logged, cvars, svars, pvars, evars, dvars, lvars>>

\* ensure_directory raises FileWriteError, or another exception that it
\* does not convert (ValueError for a path with an embedded null byte)
ensure_directory_raises ==
    /\ m_pc = "ensure"
    /\ \E type \in {"FileWriteError", "Exception"} :
          /\ m_raised' = Raised(type, 0)
          /\ exit_code' = Some(exit_code_for(Raised(type, 0)))
    /\ m_calls' = Append(m_calls, "ensure_directory")
    /\ m_pc' = "exited"
    /\ UNCHANGED <<ovars, files, files0, rvars, fvars, summary_logged, cvars, svars, pvars, evars, dvars, lvars>>

\* ensure_directory returns and main calls run_download(config)
ensure_directory_returns ==
    /\ m_pc = "ensure"
    /\ m_calls' = m_calls \o <<"ensure_directory", "run_download">>
    /\ m_pc' = "run"
    /\ pc' = "start"
    /\ UNCHANGED <<run_state, files, files0, rvars, fvars, m_raised, exit_code,
                   summary_logged, cvars, svars, pvars, evars, dvars, lvars>>

\* what run_download raised, None when it returned
raised_by_run ==
    IF pc = "fetch_error" THEN Raised("FetchError", 0)
    ELSE IF pc = "raised" THEN Raised("Exception", 0)
    ELSE IF pc = "interrupted" THEN Raised("KeyboardInterrupt", 0)
    ELSE None

main_returns_strict ==
    /\ m_pc = "run"
    /\ pc \in {"done", "fetch_error", "raised", "interrupted"}
    /\ m_raised' = raised_by_run
    /\ summary_logged' = (pc = "done" /\ success_count > 0)
    /\ exit_code' = Some(IF pc = "done" /\ success_count = 0 /\ total_count > 0
                         THEN 2 ELSE exit_code_for(raised_by_run))
    /\ m_pc' = "exited"
    /\ UNCHANGED <<ovars, files, files0, rvars, fvars, m_calls, cvars, svars, pvars, evars, dvars, lvars>>

\* run_download has returned or raised: main logs the summary and returns
\* 0, or returns from the except clause that catches the exception
main_returns ==
    /\ m_pc = "run"
    /\ pc \in {"done", "fetch_error", "raised", "interrupted"}
    /\ m_raised' = raised_by_run
    /\ summary_logged' = (pc = "done")
    /\ exit_code' = Some(exit_code_for(raised_by_run))
    /\ m_pc' = "exited"
    /\ UNCHANGED <<ovars, files, files0, rvars, fvars, m_calls, cvars, svars, pvars, evars, dvars, lvars>>

NextMain ==
    \/ parse_arguments_exits
    \/ parse_arguments_returns
    \/ ensure_directory_raises
    \/ ensure_directory_returns
    \/ main_returns
    \/ Next

SpecMain == InitMain /\ [][NextMain]_vars

\* --------------------------------------------------- capture scenario
\* capture_rendered_images (fetcher.py) on a page with a few img elements
MaxElements == 2

\* truth value of an optional string: None and "" are false
truthy(attr) == attr # None /\ attr[1] # <<>>

\* int(s) for a string of decimal digits; None stands for ValueError
RECURSIVE int(_)
int(s) ==
    IF Len(s) = 0 \/ \E k \in 1..Len(s) : s[k] \notin {Digit(d) : d \in 0..9}
    THEN None
    ELSE LET last == CHOOSE d \in 0..9 : Digit(d) = s[Len(s)]
         IN IF Len(s) = 1 THEN Some(last)
            ELSE Some(10 * int(SubSeq(s, 1, Len(s) - 1))[1] + last)

\* Path(urlparse(src).path).name: what follows the last "/" of the path
url_path_name(src) ==
    LET slashes == {k \in 1..Len(src) : src[k] = "/"}
        last == IF slashes = {} THEN 0 ELSE CHOOSE k \in slashes : \A m \in slashes : m <= k
    IN SubSeq(src, last + 1, Len(src))

SLASH_X_JPG == <<"/">> \o X_JPG
SLASH == <<"/">>

\* an img element: its src, width and height attributes (None when absent),
\* the awaited call that raises for it ("none" when none does) and the
\* PNG bytes its screenshot returns
Element(src, raises, width_attr, height_attr, size) ==
    [src |-> src, raises |-> raises, width_attr |-> width_attr,
     height_attr |-> height_attr, screenshot |-> [size |-> size]]

Elements ==
    { Element(Some(SLASH_X_JPG), "none", Some(str(2)), Some(str(1)), <<1, 1>>),
      Element(Some(SLASH_X_JPG), "none", Some(str(12)), Some(str(2)), None),
      Element(Some(SLASH_X_JPG), "none", None, None, <<1, 1>>),
      Element(Some(SLASH), "none", Some(<<>>), Some(str(2)), <<1, 2>>),
      Element(Some(SLASH_X_JPG), "none", Some(<<"a">>), Some(str(2)), <<2, 1>>),
      Element(Some(SLASH_X_JPG), "none", Some(<<"a">>), Some(str(2)), None),
      Element(Some(SLASH_X_JPG), "none", None, None, None),
      Element(None, "none", None, None, <<1, 1>>),
      Element(Some(<<>>), "none", Some(str(2)), Some(str(2)), <<1, 1>>),
      Element(Some(SLASH_X_JPG), "src", None, None, <<1, 1>>),
      Element(Some(SLASH_X_JPG), "screenshot", Some(str(2)), Some(str(2)), <<1, 1>>),
      Element(Some(SLASH_X_JPG), "height", Some(str(2)), Some(str(2)), <<1, 1>>) }

\* width, height of the loop body: the declared attributes when both are
\* set and are integers, else the size PIL decodes from the screenshot;
\* None when Image.open raises
element_dimensions(e) ==
    IF truthy(e.width_attr) /\ truthy(e.height_attr)
          /\ int(e.width_attr[1]) # None /\ int(e.height_attr[1]) # None
    THEN <<int(e.width_attr[1])[1], int(e.height_attr[1])[1]>>
    ELSE e.screenshot.size

\* filename of the loop body for loop variable i
element_filename(e, i) ==
    LET name == url_path_name(e.src[1])
        filename == IF name = <<>> \/ name = <<"/">>
                    THEN <<"i", "m", "a", "g", "e", "_">> \o str(i + 1)
                            \o <<".", "p", "n", "g">>
                    ELSE name
    IN stem(filename) \o <<".", "p", "n", "g">>

capture_unchecked(e, i) ==
    IF e.raises # "none" \/ element_dimensions(e) = None
    THEN None
    ELSE Some([image_data |-> e.screenshot, original_url |-> e.src,
               dimensions |-> element_dimensions(e),
               filename |-> IF truthy(e.src) THEN element_filename(e, i) ELSE <<>>])

\* the loop body for element e: the RenderedImage it appends, or None when
\* it continues without appending (no src, or an exception caught at 217)
capture(e, i) ==
    IF e.raises = "src" THEN None
    ELSE IF ~truthy(e.src) THEN None
    ELSE IF e.raises \in {"screenshot", "width", "height"} THEN None
    ELSE IF element_dimensions(e) = None THEN None
    ELSE Some([image_data |-> e.screenshot, original_url |-> e.src,
               dimensions |-> element_dimensions(e),
               filename |-> element_filename(e, i)])

InitCapture ==
    /\ IdleRun
    /\ files = {}
    /\ files0 = {}
    /\ r_pending = None
    /\ r_prev = None
    /\ r_cycles = <<>>
    /\ f_args = None
    /\ f_result = None
    /\ IdleMain /\ IdleStream /\ IdlePermutation /\ IdleExtract /\ IdleDownload /\ IdleProbing
    /\ c_pc = "goto"
    /\ c_elements \in SeqsUpTo(Elements, MaxElements)
    /\ c_i = 0
    /\ rendered_images = <<>>
    /\ c_kept = <<>>

\* launching the browser, page.goto or img_locator.count() raises: the
\* outer handlers turn it into FetchError
capture_page_raises ==
    /\ c_pc = "goto"
    /\ c_pc' = "fetch_error"
    /\ UNCHANGED <<ovars, files, files0, rvars, fvars, mvars, svars, pvars, evars, dvars, lvars,
                   c_elements, c_i, rendered_images, c_kept>>

\* the page is loaded and its img elements are counted
capture_page_loaded ==
    /\ c_pc = "goto"
    /\ c_pc' = "loop"
    /\ UNCHANGED <<ovars, files, files0, rvars, fvars, mvars, svars, pvars, evars, dvars, lvars,
                   c_elements, c_i, rendered_images, c_kept>>

\* one iteration of for i in range(img_count)
capture_element ==
    /\ c_pc = "loop"
    /\ c_i < Len(c_elements)
    /\ LET captured == capture(c_elements[c_i + 1], c_i)
       IN IF captured = None
          THEN UNCHANGED <<rendered_images, c_kept>>
          ELSE /\ rendered_images' = Append(rendered_images, captured[1])
               /\ c_kept' = Append(c_kept, c_i)
    /\ c_i' = c_i + 1
    /\ UNCHANGED <<ovars, files, files0, rvars, fvars, mvars, svars, pvars, evars, dvars, lvars, c_pc, c_elements>>

\* return rendered_images
capture_returns ==
    /\ c_pc = "loop"
    /\ c_i = Len(c_elements)
    /\ c_pc' = "returned"
    /\ UNCHANGED <<ovars, files, files0, rvars, fvars, mvars, svars, pvars, evars, dvars, lvars,
                   c_elements, c_i, rendered_images, c_kept>>

NextCapture ==
    \/ capture_page_raises
    \/ capture_page_loaded
    \/ capture_element
    \/ capture_returns

SpecCapture == InitCapture /\ [][NextCapture]_vars

\* ---------------------------------------------------- stream scenario
\* get_image_dimensions and check_image_size on a BytesIO with a read
\* position (filter.py 23-40)
MaxLen == 2

\* the streams: length bytes that decode to data.size, read up to position
Streams ==
    { s \in [data : FilterData, length : 0..MaxLen, position : 0..MaxLen] :
        s.position <= s.length }

\* the read positions the stream can have when get_image_dimensions
\* returns.  On success line 32 seeks back to original_position.  When
\* Image.open raises, control goes to the except clauses (35-40), which
\* return None without seeking: the stream stays wherever PIL stopped reading
positions_after_probe(s) ==
    IF s.data.size # None THEN {s.position} ELSE 0..s.length

InitStream ==
    /\ IdleRun
    /\ files = {}
    /\ files0 = {}
    /\ r_pending = None
    /\ r_prev = None
    /\ r_cycles = <<>>
    /\ f_args = None
    /\ f_result = None
    /\ IdleMain /\ IdleCapture /\ IdlePermutation /\ IdleExtract /\ IdleDownload /\ IdleProbing
    /\ \E s \in Streams : stream = Some(s) /\ stream0 = Some(s)
    /\ s_result = None

\* get_image_dimensions(stream)
call_get_image_dimensions ==
    /\ stream # None
    /\ s_result = None
    /\ s_result' = Some([function |-> "get_image_dimensions",
                         value |-> get_image_dimensions(stream[1].data)])
    /\ \E p \in positions_after_probe(stream[1]) :
          stream' = Some([stream[1] EXCEPT !.position = p])
    /\ UNCHANGED <<ovars, files, files0, rvars, fvars, mvars, cvars, pvars, evars, dvars, lvars, stream0>>

\* check_image_size(stream, min_width=bound): it probes the stream only
\* when the bound is set
call_check_image_size_on_stream ==
    /\ stream # None
    /\ s_result = None
    /\ \E bound \in {None, Some(MaxDim)} :
          LET checked == check_image_size(stream[1].data, bound, None, None, None)
          IN /\ s_result' = Some([function |-> "check_image_size",
                                  value |-> checked])
             /\ IF checked.probed
                THEN \E p \in positions_after_probe(stream[1]) :
                        stream' = Some([stream[1] EXCEPT !.position = p])
                ELSE stream' = stream
    /\ UNCHANGED <<ovars, files, files0, rvars, fvars, mvars, cvars, pvars, evars, dvars, lvars, stream0>>

NextStream ==
    \/ call_get_image_dimensions
    \/ call_check_image_size_on_stream

SpecStream == InitStream /\ [][NextStream]_vars

\* ------------------------------------------------ permutation scenario
\* the Static loop of run_download as a function of the candidate list: a
\* candidate is its URL name and whether its iteration leaves a file (the
\* write succeeded, or failed after creating the file); a candidate that
\* is Failed at download or Filtered never reaches the resolver
PermCandidates == [name : {X_JPG, X_N(1), X_PNG, <<>>}, leaves_file : BOOLEAN]

\* the directory listing after iterations k, k+1, ... of the loop
RECURSIVE names_after_run(_, _, _)
names_after_run(directory, list, k) ==
    IF k > Len(list) THEN directory
    ELSE names_after_run(
             IF list[k].leaves_file
             THEN listing_after_save(directory,
                      generate_unique_filename(directory,
                          derive_filename(list[k].name, k)))
             ELSE directory,
             list, k + 1)

IndexPermutations(n) == {f \in [1..n -> 1..n] : \A i, j \in 1..n : f[i] = f[j] => i = j}

permuted(list, perm) == [k \in 1..Len(list) |-> list[perm[k]]]

InitPermutation ==
    /\ IdleRun
    /\ files = {}
    /\ files0 = {}
    /\ r_pending = None
    /\ r_prev = None
    /\ r_cycles = <<>>
    /\ f_args = None
    /\ f_result = None
    /\ IdleMain /\ IdleCapture /\ IdleStream /\ IdleExtract /\ IdleDownload /\ IdleProbing
    /\ p_dir \in {{}, {X_JPG, X_PNG}}
    /\ p_list \in SeqsUpTo(PermCandidates, MaxCandidates)
    /\ p_perm \in IndexPermutations(Len(p_list))
    /\ p_names = None

\* one run on p_list and one run on its permutation, each from p_dir
run_both_orders ==
    /\ pc = "idle"
    /\ p_names = None
    /\ Len(p_list) > 0
    /\ p_names' = Some([listed |-> names_after_run(p_dir, p_list, 1),
                        permuted |-> names_after_run(p_dir, permuted(p_list, p_perm), 1)])
    /\ UNCHANGED <<ovars, files, files0, rvars, fvars, mvars, cvars, svars,
                   evars, dvars, lvars, p_dir, p_list, p_perm>>

NextPermutation == run_both_orders

SpecPermutation == InitPermutation /\ [][NextPermutation]_vars

\* ---------------------------------------------------- extract scenario
\* extract_image_urls (parser.py 14-60) on the src attributes of the img
\* elements of a page; URLs are strings, as sequences of characters
MaxImgs == 2

UpperCase == <<"A", "B", "C", "D", "E", "F", "G", "H", "I", "J", "K", "L", "M", "N", "O", "P", "Q", "R", "S", "T", "U", "V", "W", "X", "Y", "Z">>
LowerCase == <<"a", "b", "c", "d", "e", "f", "g", "h", "i", "j", "k", "l", "m", "n", "o", "p", "q", "r", "s", "t", "u", "v", "w", "x", "y", "z">>
Digits == {Digit(d) : d \in 0..9}

\* str.lower() on one character and on a string
lower_char(c) ==
    IF \E k \in 1..Len(UpperCase) : UpperCase[k] = c
    THEN LowerCase[CHOOSE k \in 1..Len(UpperCase) : UpperCase[k] = c]
    ELSE c

lower(s) == [k \in 1..Len(s) |-> lower_char(s[k])]

\* str.find for the characters of a set: 1-based position of the first
\* one, 0 when there is none
find_any(s, chars) ==
    IF \A k \in 1..Len(s) : s[k] \notin chars THEN 0
    ELSE CHOOSE k \in 1..Len(s) : s[k] \in chars /\ \A m \in 1..(k - 1) : s[m] \notin chars

\* s[i:] for a 1-based i
from_position(s, i) == SubSeq(s, i, Len(s))

starts_with(s, prefix) ==
    Len(s) >= Len(prefix) /\ SubSeq(s, 1, Len(prefix)) = prefix

\* not src or not src.strip()
blank(src) == src = None \/ \A k \in 1..Len(src[1]) : src[1][k] = " "

\* urlparse(url).scheme: the characters before the first ":" in lower
\* case when they start with a letter and are all scheme characters
SchemeChars ==
    {UpperCase[k] : k \in 1..Len(UpperCase)} \cup {LowerCase[k] : k \in 1..Len(LowerCase)}
        \cup Digits \cup {"+", "-", "."}

url_scheme(url) ==
    LET i == find_any(url, {":"})
    IN IF i > 1 /\ url[1] \notin Digits \cup {"+", "-", "."}
          /\ \A k \in 1..(i - 1) : url[k] \in SchemeChars
       THEN lower(SubSeq(url, 1, i - 1))
       ELSE <<>>

\* what follows "scheme:" in a URL
after_scheme(url) ==
    IF url_scheme(url) = <<>> THEN url
    ELSE from_position(url, Len(url_scheme(url)) + 2)

\* what follows the network location of a URL: path, query and fragment
after_netloc(url) ==
    LET rest == after_scheme(url)
    IN IF starts_with(rest, <<"/", "/">>)
       THEN LET tail == from_position(rest, 3)
                i == find_any(tail, {"/", "?", "#"})
            IN IF i = 0 THEN <<>> ELSE from_position(tail, i)
       ELSE rest

\* urlparse(url).path
url_path(url) ==
    LET rest == after_netloc(url)
        i == find_any(rest, {"?", "#"})
    IN IF i = 0 THEN rest ELSE SubSeq(rest, 1, i - 1)

\* scheme://netloc of an absolute URL
url_origin(url) == SubSeq(url, 1, Len(url) - Len(after_netloc(url)))

\* scheme://netloc/dir/ : the URL up to the last "/" of its path
url_directory(url) ==
    LET path == url_path(url)
        slashes == {k \in 1..Len(path) : path[k] = "/"}
        last == IF slashes = {} THEN 0
                ELSE CHOOSE k \in slashes : \A m \in slashes : m <= k
    IN url_origin(url) \o (IF last = 0 THEN <<"/">> ELSE SubSeq(path, 1, last))

\* urljoin(base, url) for an absolute http(s) base and a url without dot
\* segments: a url with another scheme, or with the base's scheme and a
\* network location, is returned as it is; "//netloc/..." takes the base's
\* scheme, "/path" the base's origin, any other url the base's directory
urljoin(base, url) ==
    IF url_scheme(url) # <<>> THEN url
    ELSE IF starts_with(url, <<"/", "/">>) THEN url_scheme(base) \o <<":">> \o url
    ELSE IF starts_with(url, <<"/">>) THEN url_origin(base) \o url
    ELSE url_directory(base) \o url

SUPPORTED_EXTENSIONS ==
    {<<".", "j", "p", "g">>,
     <<".", "j", "p", "e", "g">>,
     <<".", "p", "n", "g">>,
     <<".", "g", "i", "f">>,
     <<".", "w", "e", "b", "p">>,
     <<".", "s", "v", "g">>,
     <<".", "b", "m", "p">>}

INVALID_SCHEMES == {<<"d", "a", "t", "a">>, <<"j", "a", "v", "a", "s", "c", "r", "i", "p", "t">>, <<"m", "a", "i", "l", "t", "o">>}

\* '.' + path.rsplit('.', 1)[-1] of the lower-cased path, None when the
\* path has no dot
path_extension(url) ==
    LET path == lower(url_path(url))
        dots == {k \in 1..Len(path) : path[k] = "."}
    IN IF dots = {} THEN None
       ELSE Some(from_position(path, CHOOSE k \in dots : \A m \in dots : m <= k))

A_JPG == <<"a", ".", "j", "p", "g">>
HTTP_H_D_A_JPG == <<"h", "t", "t", "p", ":", "/", "/", "h", "/", "d", "/", "a", ".", "j", "p", "g">>
HTTPS_C_B_GIF == <<"h", "t", "t", "p", "s", ":", "/", "/", "c", "/", "b", ".", "g", "i", "f">>
FTP_C_A_JPG == <<"f", "t", "p", ":", "/", "/", "c", "/", "a", ".", "j", "p", "g">>
SLASH_A == <<"/", "a">>
SLASH_UPPER_A_JPG == <<"/", "A", ".", "J", "P", "G">>
BASE_HTTP == <<"h", "t", "t", "p", ":", "/", "/", "h", "/", "d", "/">>
BASE_HTTPS == <<"h", "t", "t", "p", "s", ":", "/", "/", "h", "/", "p">>

\* the values of img.get('src'): None when the attribute is absent
Srcs ==
    {None, Some(<<>>), Some(<<" ">>)} \cup
    {Some(s) : s \in {A_JPG, HTTP_H_D_A_JPG, HTTPS_C_B_GIF, FTP_C_A_JPG, SLASH_A, SLASH_UPPER_A_JPG,
                     <<"d", "a", "t", "a", ":", "a", ".", "p", "n", "g">>,
                     <<"m", "a", "i", "l", "t", "o", ":", "a", ".", "j", "p", "g">>,
                     <<"j", "a", "v", "a", "s", "c", "r", "i", "p", "t", ":", "a", ".", "j", "p", "g">>,
                     <<"/", "/", "c", "/", "a", ".", "p", "n", "g">>,
                     <<"/", "a", ".", "j", "p", "g">>,
                     <<"/", "a", ".", "t", "x", "t">>,
                     <<"a", ".", "j", "p", "g", "?", "v", "=", "1">>}}

absolute_url_unresolved(base_url, src) == src

\* absolute_url = urljoin(base_url, src)
absolute_url(base_url, src) == urljoin(base_url, src)

supported_case_sensitive(url) ==
    LET path == url_path(url)
        dots == {k \in 1..Len(path) : path[k] = "."}
    IN dots # {} /\
       from_position(path, CHOOSE k \in dots : \A m \in dots : m <= k) \in SUPPORTED_EXTENSIONS

\* the path of the URL has a dot and what follows its last dot, in lower
\* case, is a supported extension
supported(url) ==
    path_extension(url) # None /\ path_extension(url)[1] \in SUPPORTED_EXTENSIONS

\* the loop body of extract_image_urls: the img element with this src
\* adds its absolute URL to the set
adds(base_url, src) ==
    /\ ~blank(src)
    /\ url_scheme(src[1]) \notin INVALID_SCHEMES
    /\ supported(absolute_url(base_url, src[1]))

\* the set urls after the loop over the img elements
urls_of(base_url, html) ==
    {absolute_url(base_url, html[k][1]) : k \in {j \in 1..Len(html) : adds(base_url, html[j])}}

\* list(urls): the elements of a set, each once, in some order
lists_of(urls) ==
    {q \in [1..Cardinality(urls) -> urls] :
        \A i, j \in 1..Cardinality(urls) : i # j => q[i] # q[j]}

InitExtract ==
    /\ IdleRun
    /\ files = {}
    /\ files0 = {}
    /\ r_pending = None
    /\ r_prev = None
    /\ r_cycles = <<>>
    /\ f_args = None
    /\ f_result = None
    /\ IdleMain /\ IdleCapture /\ IdleStream /\ IdlePermutation /\ IdleDownload /\ IdleProbing
    /\ e_base \in {BASE_HTTP, BASE_HTTPS}
    /\ e_html \in SeqsUpTo(Srcs, MaxImgs)
    /\ e_result = None

\* one call of extract_image_urls(html, base_url)
call_extract_image_urls ==
    /\ pc = "idle"
    /\ e_result = None
    /\ \E list \in lists_of(urls_of(e_base, e_html)) : e_result' = Some(list)
    /\ UNCHANGED <<ovars, files, files0, rvars, fvars, mvars, cvars, svars, pvars,
                   dvars, lvars, e_base, e_html>>

NextExtract == call_extract_image_urls

SpecExtract == InitExtract /\ [][NextExtract]_vars

\* --------------------------------------------------- download scenario
\* download_image (downloader.py 15-70) on one URL; d_reply is what
\* requests.get meets: a response of the server, or an exception of the
\* request
StatusCodes == {200, 204, 301, 400, 401, 403, 404, 410, 429, 500, 502, 503}

RequestErrors == {"Timeout", "ConnectionError", "TooManyRedirects", "RequestException"}

Replies ==
    [kind : {"response"}, url : {HTTP_H_D_A_JPG, HTTPS_C_B_GIF},
     status_code : StatusCodes, content_type : {"", "image/jpeg", "text/html"}]
    \cup [kind : RequestErrors, url : {HTTP_H_D_A_JPG, HTTPS_C_B_GIF}]

\* response.raise_for_status() raises HTTPError for a 4xx or 5xx status
raises_for_status(reply) == reply.status_code >= 400 /\ reply.status_code < 600

\* the truth value of a requests Response, Response.__bool__: its ok
\* property, false exactly when raise_for_status raises
response_truthy(reply) == ~raises_for_status(reply)

\* line 41: e.response.status_code if e.response else None
http_error_status(reply) ==
    IF response_truthy(reply) THEN Some(reply.status_code) ELSE None

DownloadError(reply, status_code) ==
    Some([kind |-> "DownloadError", url |-> reply.url, status_code |-> status_code])

InitDownload ==
    /\ IdleRun
    /\ files = {}
    /\ files0 = {}
    /\ r_pending = None
    /\ r_prev = None
    /\ r_cycles = <<>>
    /\ f_args = None
    /\ f_result = None
    /\ IdleMain /\ IdleCapture /\ IdleStream /\ IdlePermutation /\ IdleExtract /\ IdleProbing
    /\ d_reply \in {Some(reply) : reply \in Replies}
    /\ d_outcome = None

\* the server answers with a status below 400: the content is returned,
\* whatever the Content-Type
download_image_returns ==
    /\ pc = "idle"
    /\ d_outcome = None
    /\ d_reply[1].kind = "response"
    /\ ~raises_for_status(d_reply[1])
    /\ d_outcome' = Some([kind |-> "returned", url |-> d_reply[1].url])
    /\ UNCHANGED <<ovars, files, files0, rvars, fvars, mvars, cvars, svars, pvars,
                   evars, lvars, d_reply>>

\* raise_for_status raises HTTPError, handled at lines 40-46
download_image_http_error ==
    /\ pc = "idle"
    /\ d_outcome = None
    /\ d_reply[1].kind = "response"
    /\ raises_for_status(d_reply[1])
    /\ d_outcome' = DownloadError(d_reply[1], http_error_status(d_reply[1]))
    /\ UNCHANGED <<ovars, files, files0, rvars, fvars, mvars, cvars, svars, pvars,
                   evars, lvars, d_reply>>

\* requests.get raises Timeout, ConnectionError, TooManyRedirects or
\* another RequestException, handled at lines 47-70
download_image_request_error ==
    /\ pc = "idle"
    /\ d_outcome = None
    /\ d_reply[1].kind \in RequestErrors
    /\ d_outcome' = DownloadError(d_reply[1], None)
    /\ UNCHANGED <<ovars, files, files0, rvars, fvars, mvars, cvars, svars, pvars,
                   evars, lvars, d_reply>>

NextDownload ==
    \/ download_image_returns
    \/ download_image_http_error
    \/ download_image_request_error

SpecDownload == InitDownload /\ [][NextDownload]_vars

\* ----------------------------------------------------- probing scenario
\* generate_unique_filename (file_manager.py 64-83) step by step: one
\* action per Path.exists() check
InitProbing ==
    /\ IdleRun
    /\ files = {}
    /\ files0 = {}
    /\ r_pending = None
    /\ r_prev = None
    /\ r_cycles = <<>>
    /\ f_args = None
    /\ f_result = None
    /\ IdleMain /\ IdleCapture /\ IdleStream /\ IdlePermutation /\ IdleExtract /\ IdleDownload
    /\ l_dir \in SUBSET ({X_JPG, ARCHIVE_TAR_GZ, HIDDEN} \cup
                         {new_filename(stem(X_JPG), n, suffix(X_JPG)) : n \in 1..MaxCycles})
    /\ l_name \in {X_JPG, X_N(1), ARCHIVE_TAR_GZ, HIDDEN}
    /\ l_counter = 0
    /\ l_path = None

\* lines 64-75: the path asked for is returned when it does not exist,
\* otherwise the loop starts with counter = 1
probe_first ==
    /\ pc = "idle"
    /\ l_name # <<>>
    /\ l_path = None
    /\ l_counter = 0
    /\ IF ~exists(l_dir, l_name)
       THEN l_path' = Some(l_name) /\ l_counter' = l_counter
       ELSE l_path' = l_path /\ l_counter' = 1
    /\ UNCHANGED <<ovars, files, files0, rvars, fvars, mvars, cvars, svars, pvars,
                   evars, dvars, l_dir, l_name>>

probe_next_stuck ==
    /\ pc = "idle"
    /\ l_path = None
    /\ l_counter >= 1
    /\ IF ~exists(l_dir, new_filename(stem(l_name), l_counter, suffix(l_name)))
       THEN l_path' = Some(new_filename(stem(l_name), l_counter, suffix(l_name)))
            /\ l_counter' = l_counter
       ELSE l_path' = l_path /\ l_counter' = 1
    /\ UNCHANGED <<ovars, files, files0, rvars, fvars, mvars, cvars, svars, pvars,
                   evars, dvars, l_dir, l_name>>

\* lines 76-83: one turn of the loop; the numbered name is returned when
\* it does not exist, otherwise counter += 1. A directory of n names holds
\* at most n numbered names, so counter stays within n + 1
probe_next ==
    /\ pc = "idle"
    /\ l_path = None
    /\ l_counter >= 1
    /\ l_counter <= Cardinality(l_dir) + 1
    /\ IF ~exists(l_dir, new_filename(stem(l_name), l_counter, suffix(l_name)))
       THEN l_path' = Some(new_filename(stem(l_name), l_counter, suffix(l_name)))
            /\ l_counter' = l_counter
       ELSE l_path' = l_path /\ l_counter' = l_counter + 1
    /\ UNCHANGED <<ovars, files, files0, rvars, fvars, mvars, cvars, svars, pvars,
                   evars, dvars, l_dir, l_name>>

\* ------------------------------------------------------------ termination
\* a run, or one call of generate_unique_filename, in which every step
\* that can be taken is eventually taken: each collaborator call returns
\* or raises, and the interpreter then executes the next statement; the
\* runs start from a directory that holds files, with no size bound or
\* all four set
TerminationConfigs ==
    {cfg \in Configs : Len(cfg.min_width) = Len(cfg.max_height)
                          /\ Len(cfg.min_height) = Len(cfg.max_width)
                          /\ Len(cfg.min_width) = Len(cfg.min_height)}

InitTermination ==
    \/ Init /\ config \in TerminationConfigs /\ files = {X_JPG, X_PNG}
    \/ InitProbing

NextTermination ==
    \/ Next
    \/ probe_first
    \/ probe_next

SpecTermination ==
    InitTermination /\ [][NextTermination]_vars /\ WF_vars(NextTermination)

\* ------------------------------------------------------------ properties
LoopPhases == {"download", "filter", "resolve", "save"}
Counted == success_count + failed_count + filtered_count

\* C1: every DownloadResult returned by run_download satisfies
\* success_count + failed_count + filtered_count = total_count
C1_ResultCountsSumToTotal ==
    result # None =>
        result[1].success_count + result[1].failed_count + result[1].filtered_count
            = result[1].total_count

C1_Witness ==
    /\ pc = "done"
    /\ result # None
    /\ result[1].total_count = MaxCandidates
    /\ result[1].failed_count > 0
    /\ result[1].filtered_count > 0
    /\ result[1].success_count > 0

\* C2: each processed candidate increases exactly one of the three counters
\* by exactly 1 and leaves the other two unchanged, so that after k
\* candidates the counters sum to k; total_count is the length of the
\* candidate list returned by acquisition
C2_CountersAfterK ==
    pc \in LoopPhases \cup {"summary", "done", "interrupted"} =>
        /\ Counted = index - 1
        /\ total_count = Len(candidates)

C2_OneCounterPerCandidate ==
    index' = index + 1 =>
        \/ /\ success_count' = success_count + 1
           /\ failed_count' = failed_count /\ filtered_count' = filtered_count
        \/ /\ failed_count' = failed_count + 1
           /\ success_count' = success_count /\ filtered_count' = filtered_count
        \/ /\ filtered_count' = filtered_count + 1
           /\ success_count' = success_count /\ failed_count' = failed_count

C2_ExactlyOneOutcome == [](C2_CountersAfterK) /\ [][C2_OneCounterPerCandidate]_vars

C2_Witness ==
    /\ pc \in LoopPhases
    /\ index = MaxCandidates
    /\ success_count = 1
    /\ filtered_count = 1

\* C3: an exception while processing candidate i (DownloadError,
\* FileWriteError or any other Exception) is recorded as one Failed outcome,
\* is not raised, and the loop goes on with candidate i+1: a returned run
\* has processed every candidate
C3_FailureContinues ==
    (Len(outcomes') = Len(outcomes) + 1 /\ outcomes'[Len(outcomes')].status = "Failed") =>
        /\ failed_count' = failed_count + 1
        /\ index' = index + 1
        /\ pc' = IF index < total_count THEN first_phase ELSE "summary"

C3_AllProcessed ==
    pc \in {"summary", "done"} /\ total_count > 0 => Len(outcomes) = Len(candidates)

C3_Isolation == [](C3_AllProcessed) /\ [][C3_FailureContinues]_vars

C3_Witness ==
    /\ pc = "done"
    /\ Len(outcomes) = MaxCandidates
    /\ outcomes[1].cause = "DownloadError"
    /\ outcomes[2].cause = "Exception"
    /\ outcomes[MaxCandidates].status = "Success"

\* C4: when the initial page acquisition raises FetchError, run_download
\* propagates it: no DownloadResult, no download, no filename resolution
\* and no file write
C4_FetchErrorIsFatal ==
    calls.fetch_error > 0 =>
        /\ pc = "fetch_error"
        /\ result = None
        /\ calls.download = 0 /\ calls.resolve = 0 /\ calls.write = 0
        /\ outcomes = <<>>
        /\ files = files0

C4_Witness ==
    /\ pc = "fetch_error"
    /\ calls.fetch_error = 1
    /\ config.use_playwright

\* the names x.jpg, x_1.jpg, x_2.jpg, ...
XFamily == {X_JPG} \cup {X_N(k) : k \in 1..(MaxCycles + 1)}

OnlyXCycles == \A k \in 1..Len(r_cycles) : r_cycles[k].name = X_JPG

\* C5: from a directory with none of x.jpg, x_1.jpg, ..., N cycles of
\* generate_unique_filename(dir, "x.jpg") + write leave exactly the N files
\* x.jpg, x_1.jpg, ..., x_{N-1}.jpg, the k-th cycle returning x_{k-1}.jpg
C5_SequentialCycles ==
    (files0 \cap XFamily = {} /\ OnlyXCycles) =>
        /\ \A k \in 1..Len(r_cycles) :
              r_cycles[k].path = IF k = 1 THEN X_JPG ELSE X_N(k - 1)
        /\ files = files0 \cup {X_JPG : k \in 1..(IF Len(r_cycles) > 0 THEN 1 ELSE 0)}
                          \cup {X_N(k) : k \in 1..(Len(r_cycles) - 1)}

C5_Witness ==
    /\ files0 \cap XFamily = {}
    /\ files0 # {}
    /\ OnlyXCycles
    /\ Len(r_cycles) = MaxCycles
    /\ r_pending = None

\* C6: generate_unique_filename returns the desired name when it is free,
\* otherwise {stem}_{n}{suffix} for the smallest n >= 1 that is free (gaps
\* are filled); the returned path does not exist at the time of return
C6_SmallestFreeName ==
    r_pending # None =>
        LET name == r_pending[1].name
            path == r_pending[1].path
            dir == r_pending[1].listing
            numbered(n) == new_filename(stem(name), n, suffix(name))
        IN /\ path \notin dir
           /\ path \notin files
           /\ name \notin dir => path = name
           /\ name \in dir =>
                 \E n \in 1..(Cardinality(dir) + 1) :
                    /\ path = numbered(n)
                    /\ \A m \in 1..(n - 1) : numbered(m) \in dir

C6_Witness ==
    /\ r_pending # None
    /\ r_pending[1].name = X_JPG
    /\ {X_JPG, X_N(1), X_N(MaxCycles)} \subseteq r_pending[1].listing
    /\ X_N(2) \notin r_pending[1].listing
    /\ r_pending[1].path = X_N(2)

LastDot(name) ==
    IF \A k \in 1..Len(name) : name[k] # "." THEN 0
    ELSE CHOOSE k \in 1..Len(name) :
            name[k] = "." /\ \A m \in (k + 1)..Len(name) : name[m] # "."

Numbered(name, n, bare) ==
    IF bare THEN name \o <<"_">> \o str(n)
    ELSE SubSeq(name, 1, LastDot(name) - 1) \o <<"_">> \o str(n)
            \o SubSeq(name, LastDot(name), Len(name))

Collided == r_pending # None /\ r_pending[1].name \in r_pending[1].listing

Holds(args) ==
    /\ args.min_width # None => args.image_data.size[1] >= args.min_width[1]
    /\ args.min_height # None => args.image_data.size[2] >= args.min_height[1]
    /\ args.max_width # None => args.image_data.size[1] <= args.max_width[1]
    /\ args.max_height # None => args.image_data.size[2] <= args.max_height[1]

NoBound(args) ==
    /\ args.min_width = None /\ args.min_height = None
    /\ args.max_width = None /\ args.max_height = None

\* C9: check_image_size is true when no bound is set (without probing the
\* dimensions), false when a bound is set and the dimensions are unknown,
\* and otherwise true iff every set bound holds, equality passing
C9_FilterMatchesReference ==
    f_result # None =>
        /\ NoBound(f_args) => (f_result[1].passes /\ ~f_result[1].probed)
        /\ (~NoBound(f_args) /\ f_args.image_data.size = None) => ~f_result[1].passes
        /\ (~NoBound(f_args) /\ f_args.image_data.size # None) =>
               (f_result[1].passes <=> Holds(f_args))

C9_Witness ==
    /\ f_result # None
    /\ f_args.min_width = Some(MaxDim)
    /\ f_args.max_height = Some(MaxDim)
    /\ f_args.image_data.size = <<MaxDim, MaxDim>>
    /\ f_result[1].passes

\* the decoded size of the current candidate's bytes breaks a bound of cfg
ViolatesBound(size, cfg) ==
    \/ cfg.min_width # None /\ size[1] < cfg.min_width[1]
    \/ cfg.min_height # None /\ size[2] < cfg.min_height[1]
    \/ cfg.max_width # None /\ size[1] > cfg.max_width[1]
    \/ cfg.max_height # None /\ size[2] > cfg.max_height[1]

RejectedByFilter ==
    /\ pc = "filter"
    /\ AnyBound(config)
    /\ \/ filter_input.size = None
       \/ filter_input.size # None /\ ViolatesBound(filter_input.size, config)

\* C10: with a bound set, a candidate whose bytes cannot be decoded, or
\* whose decoded dimensions violate a set bound, is counted as Filtered
\* (not Failed) and no file is written for it
C10_RejectedIsFiltered ==
    (RejectedByFilter /\ pc' # "interrupted") =>
        /\ filtered_count' = filtered_count + 1
        /\ failed_count' = failed_count
        /\ success_count' = success_count
        /\ index' = index + 1
        /\ files' = files
        /\ calls' = calls

C10_FilteredNotFailed == [][C10_RejectedIsFiltered]_vars

C10_Witness ==
    /\ Len(outcomes) >= 2
    /\ outcomes[1].cause = "unknown_size"
    /\ outcomes[2].cause = "size"
    /\ filtered_count = 2
    /\ failed_count = 0
    /\ files = files0

\* C11: when acquisition yields zero candidates, run_download returns the
\* all-zero DownloadResult and performs no download, no filename resolution
\* and no file write; the output directory is unchanged
C11_EmptyRunIsNoOp ==
    (pc \notin {"idle", "uncalled", "start", "fetch_error", "raised"}
        /\ Len(candidates) = 0) =>
        /\ pc = "done"
        /\ result = Some([success_count |-> 0, failed_count |-> 0,
                          filtered_count |-> 0, total_count |-> 0])
        /\ calls.download = 0 /\ calls.resolve = 0 /\ calls.write = 0
        /\ outcomes = <<>>
        /\ files = files0

C11_Witness ==
    /\ pc = "done"
    /\ Len(candidates) = 0
    /\ config.use_playwright
    /\ files0 # {}
    /\ result # None

\* how main's work ended, read from the state of its collaborators
ParseFailed == m_calls = <<"parse_arguments">>
DirectoryFailed == m_calls[Len(m_calls)] = "ensure_directory"
RunEnded == m_calls[Len(m_calls)] = "run_download"

\* C12: main returns 1 when argument parsing exits with a non-zero code, 0
\* when it exits with 0 (--help), 2 when ensure_directory or run_download
\* raises FetchError, FileWriteError or any other Exception, and 0 when
\* run_download returns; a fatal page-acquisition failure exits non-zero
C12_ExitCodes ==
    m_pc = "exited" =>
        /\ (ParseFailed /\ m_raised[1].code # 0) => exit_code = Some(1)
        /\ (ParseFailed /\ m_raised[1].code = 0) => exit_code = Some(0)
        /\ DirectoryFailed => exit_code = Some(2)
        /\ (RunEnded /\ pc \in {"fetch_error", "raised"}) => exit_code = Some(2)
        /\ (RunEnded /\ pc = "done") => exit_code = Some(0)
        /\ calls.fetch_error > 0 => exit_code \notin {None, Some(0)}

C12_Witness ==
    /\ m_pc = "exited"
    /\ RunEnded
    /\ pc = "fetch_error"
    /\ exit_code = Some(2)

\* C13: once the page has been acquired and every candidate has its
\* outcome, main logs the summary and returns 0, whatever the outcomes are
\* (also when no candidate succeeded)
C13_SummaryWhateverOutcomes ==
    (m_pc = "exited" /\ pc = "done") =>
        /\ exit_code = Some(0)
        /\ summary_logged
        /\ m_raised = None

C13_Witness ==
    /\ m_pc = "exited"
    /\ pc = "done"
    /\ total_count = MaxCandidates
    /\ success_count = 0
    /\ failed_count > 0
    /\ filtered_count > 0
    /\ summary_logged

\* C14: the acquisition strategy is chosen once from config.use_playwright.
\* A Rendered run calls capture_rendered_images_sync exactly once and never
\* fetch_html, extract_image_urls or download_image; a Static run calls
\* fetch_html exactly once and never capture_rendered_images_sync
C14_OneStrategy ==
    pc \notin {"idle", "uncalled", "start"} =>
        IF config.use_playwright
        THEN /\ calls.capture_rendered_images_sync = 1
             /\ calls.fetch_html = 0
             /\ calls.extract_image_urls = 0
             /\ calls.download = 0
             /\ calls.downloaded = <<>>
        ELSE /\ calls.fetch_html = 1
             /\ calls.capture_rendered_images_sync = 0

C14_Witness ==
    /\ pc = "done"
    /\ config.use_playwright
    /\ total_count = MaxCandidates
    /\ success_count > 0
    /\ calls.capture_rendered_images_sync = 1

\* an element whose capture raises: an awaited call fails, or the
\* screenshot has to be decoded (attributes missing or not integers) and
\* cannot be
CaptureRaises(e) ==
    \/ e.raises # "none"
    \/ /\ e.screenshot.size = None
       /\ \/ e.width_attr \in {None, Some(<<>>)}
          \/ e.height_attr \in {None, Some(<<>>)}
          \/ \E k \in 1..Len(e.width_attr[1]) :
                e.width_attr[1][k] \notin {Digit(d) : d \in 0..9}
          \/ \E k \in 1..Len(e.height_attr[1]) :
                e.height_attr[1][k] \notin {Digit(d) : d \in 0..9}

GoodElement(e) == e.src \notin {None, Some(<<>>)} /\ ~CaptureRaises(e)

\* the loop indices below n of the good elements, in element order
GoodIndices(n) ==
    LET IsGood(i) == GoodElement(c_elements[i + 1])
    IN SelectSeq([k \in 1..n |-> k - 1], IsGood)

\* C15: capture_rendered_images returns exactly the img elements with a
\* non-empty src whose capture raised no exception, in element order; a
\* failing or src-less element is skipped, later elements are still
\* captured, and no FetchError is raised once the elements are iterated
C15_ReturnsGoodElements ==
    /\ c_pc \in {"loop", "returned"} =>
          /\ c_kept = GoodIndices(c_i)
          /\ Len(rendered_images) = Len(c_kept)
          /\ \A k \in 1..Len(c_kept) :
                rendered_images[k].original_url = c_elements[c_kept[k] + 1].src
    /\ c_pc = "returned" => c_i = Len(c_elements)
    /\ c_pc = "fetch_error" => c_i = 0 /\ rendered_images = <<>>

C15_Witness ==
    /\ c_pc = "returned"
    /\ Len(c_elements) = MaxElements
    /\ CaptureRaises(c_elements[1])
    /\ c_elements[1].src # None
    /\ c_kept = <<MaxElements - 1>>

\* C16: get_image_dimensions (and so check_image_size) leaves the read
\* position of its input stream unchanged for every input, when decoding
\* succeeds and when it fails and None is returned
C16_PositionPreserved ==
    s_result # None => stream[1].position = stream0[1].position

\* C17: candidates are processed strictly in list order, one at a time:
\* the k-th recorded outcome is the one of candidate k, work on candidate
\* i+1 begins only when the outcomes of candidates 1..i are recorded, and
\* no step ever goes back to an earlier candidate
C17_OutcomesInOrder ==
    /\ \A k \in 1..Len(outcomes) : outcomes[k].item = k
    /\ Len(outcomes) <= touched /\ touched <= Len(outcomes) + 1
    /\ pc \in LoopPhases => (Len(outcomes) = index - 1 /\ index <= total_count)

C17_OneAtATime ==
    /\ touched' \in {touched, touched + 1}
    /\ touched' = touched + 1 => (Len(outcomes) = touched /\ touched' = index)
    /\ Len(outcomes') \in {Len(outcomes), Len(outcomes) + 1}
    /\ SubSeq(outcomes', 1, Len(outcomes)) = outcomes

C17_StrictOrder == [](C17_OutcomesInOrder) /\ [][C17_OneAtATime]_vars

C17_Witness ==
    /\ pc = "save"
    /\ index = MaxCandidates
    /\ touched = MaxCandidates
    /\ Len(outcomes) = MaxCandidates - 1
    /\ outcomes[1].status = "Filtered"
    /\ outcomes[2].status = "Failed"

\* the number of download attempts made for candidate i
Attempts(i) == Cardinality({k \in 1..Len(calls.downloaded) : calls.downloaded[k] = i})

\* C18: there is no retry: each candidate's download is attempted at most
\* once (exactly once in a completed Static run, never in a Rendered run),
\* and a candidate whose download failed is counted as Failed and is not
\* attempted again
C18_NoRetry ==
    /\ calls.download = Len(calls.downloaded)
    /\ \A i \in 1..Len(candidates) : Attempts(i) <= 1
    /\ (~config.use_playwright /\ pc \in {"summary", "done"}) =>
          \A i \in 1..Len(candidates) : Attempts(i) = 1
    /\ config.use_playwright => calls.downloaded = <<>>
    /\ \A k \in 1..Len(outcomes) :
          outcomes[k].cause = "DownloadError" =>
             (outcomes[k].status = "Failed" /\ Attempts(k) = 1)

C18_Witness ==
    /\ pc = "done"
    /\ ~config.use_playwright
    /\ Len(outcomes) = MaxCandidates
    /\ outcomes[1].cause = "DownloadError"
    /\ outcomes[MaxCandidates].status = "Success"
    /\ calls.downloaded = [k \in 1..MaxCandidates |-> k]

\* a step of save_image
WriteStep == calls'.write = calls.write + 1

\* C19: a run never writes to a path that exists at the time of the write:
\* every write goes to the path just returned by generate_unique_filename
\* for the current listing, and no step removes or replaces a file, so the
\* files present before the run and those saved earlier stay as they are
C19_WriteToFreePath ==
    /\ files \subseteq files'
    /\ WriteStep =>
          /\ pc = "save"
          /\ unique_path # None
          /\ unique_path[1] \notin files
          /\ unique_path[1] =
                generate_unique_filename(files, derive_filename(candidates[index], index))
          /\ files' \subseteq files \cup {unique_path[1]}
    /\ ~WriteStep => files' = files

C19_NeverOverwrites == [](files0 \subseteq files) /\ [][C19_WriteToFreePath]_vars

C19_Witness ==
    /\ pc = "done"
    /\ ~config.use_playwright
    /\ files0 = {X_JPG, X_PNG}
    /\ Len(candidates) = MaxCandidates
    /\ candidates[1] = X_JPG
    /\ candidates[2] = X_N(1)
    /\ success_count = MaxCandidates
    /\ {X_N(1), new_filename(stem(X_N(1)), 1, suffix(X_N(1)))} \subseteq files

\* C20: after a completed run the number of files created in the output
\* directory equals success_count: a Success adds exactly one new file, a
\* Failed or Filtered candidate adds none
C20_NewFilesEqualSuccesses ==
    pc = "done" => Cardinality(files \ files0) = success_count

RenderedWithBound == config.use_playwright /\ AnyBound(config)

\* C21 as stated: in Rendered mode with a bound set, a candidate is
\* Filtered iff its pre-supplied dimensions (RenderedImage.dimensions)
\* violate a set bound
C21_FilterOnPresupplied ==
    RenderedWithBound =>
        \A k \in 1..Len(outcomes) :
            outcomes[k].status = "Filtered"
                <=> ViolatesBound(candidates[k].dimensions, config)

\* C21 (amended): in Rendered mode with a bound set, the filter decision is
\* taken on the dimensions re-decoded from the captured bytes: a candidate
\* is Filtered iff its bytes cannot be decoded or the decoded dimensions
\* violate a set bound, whatever its pre-supplied dimensions are
C21_FilterOnDecodedBytes ==
    RenderedWithBound =>
        \A k \in 1..Len(outcomes) :
            outcomes[k].status = "Filtered"
                <=> \/ candidates[k].image_data.size = None
                    \/ /\ candidates[k].image_data.size # None
                       /\ ViolatesBound(candidates[k].image_data.size, config)

C21_Witness ==
    /\ RenderedWithBound
    /\ Len(outcomes) >= 2
    /\ outcomes[1].status = "Filtered"
    /\ ~ViolatesBound(candidates[1].dimensions, config)
    /\ outcomes[2].status = "Success"
    /\ candidates[2].dimensions = candidates[2].image_data.size

\* C22 as stated: for the same initial directory and the same per-candidate
\* results, any two orders of the candidate list leave the same set of
\* file names
C22_OrderIndependent ==
    p_names # None => p_names[1].listed = p_names[1].permuted

\* the numbered variants {stem}_{n}{suffix} of a name that a run on a
\* directory of this size can produce
NumberedVariants(name) ==
    {new_filename(stem(name), n, suffix(name)) :
        n \in 1..(Len(p_list) + Cardinality(p_dir))}

\* every candidate has a name in its URL, and no candidate's name is a
\* numbered variant of another candidate's name
NamesDoNotInterfere ==
    /\ \A k \in 1..Len(p_list) : p_list[k].name # <<>>
    /\ \A i, j \in 1..Len(p_list) :
          p_list[j].name \notin NumberedVariants(p_list[i].name)

\* C22 (amended): the set of file names after a run does not depend on the
\* order of the candidates when every candidate's URL has a file name and
\* no candidate's name is a numbered variant of another's
C22_OrderIndependentWithoutInterference ==
    (p_names # None /\ NamesDoNotInterfere) =>
        p_names[1].listed = p_names[1].permuted

C22_Witness ==
    /\ p_names # None
    /\ NamesDoNotInterfere
    /\ Len(p_list) = MaxCandidates
    /\ p_dir # {}
    /\ p_list[1].name = X_JPG /\ p_list[1].leaves_file
    /\ p_list[2].name = X_PNG /\ p_list[2].leaves_file
    /\ p_list[MaxCandidates].name = X_JPG /\ p_list[MaxCandidates].leaves_file
    /\ p_perm[1] # 1
    /\ Cardinality(p_names[1].listed) = Cardinality(p_dir) + MaxCandidates

\* C23: a KeyboardInterrupt raised while a candidate is processed is not
\* turned into a Failed outcome: the candidate gets no outcome, the
\* remaining candidates are not processed, run_download returns no result,
\* no summary is logged, and main returns 0
C23_InterruptedState ==
    pc = "interrupted" =>
        /\ result = None
        /\ Len(outcomes) = index - 1
        /\ Len(outcomes) < total_count
        /\ Counted = Len(outcomes)
        /\ touched = index
        /\ ~summary_logged
        /\ m_pc = "exited" =>
              (exit_code = Some(0) /\ m_raised = Raised("KeyboardInterrupt", 0))

C23_NothingAfterInterrupt ==
    pc = "interrupted" => UNCHANGED <<pc, run_state, files>>

C23_InterruptPropagates == [](C23_InterruptedState) /\ [][C23_NothingAfterInterrupt]_vars

C23_Witness ==
    /\ m_pc = "exited"
    /\ pc = "interrupted"
    /\ exit_code = Some(0)
    /\ total_count = MaxCandidates
    /\ index = 2
    /\ outcomes[1].status = "Success"
    /\ unique_path # None

MainSteps == <<"parse_arguments", "setup_logging", "ensure_directory", "run_download">>

NoNetworkRequest ==
    /\ calls.fetch_html = 0
    /\ calls.capture_rendered_images_sync = 0
    /\ calls.download = 0

\* C24: main calls its collaborators in a fixed order: ensure_directory
\* only after parse_arguments returned, run_download only after
\* ensure_directory returned; when parsing fails neither is called, and
\* when ensure_directory raises FileWriteError run_download is never called
\* and no network request is made
C24_FixedOrder ==
    /\ Len(m_calls) <= Len(MainSteps)
    /\ m_calls = SubSeq(MainSteps, 1, Len(m_calls))
    /\ pc # "uncalled" => m_calls = MainSteps
    /\ m_pc = "run" => m_raised = None
    /\ (m_raised # None /\ m_raised[1].type = "SystemExit") =>
          (m_calls = <<"parse_arguments">> /\ pc = "uncalled" /\ NoNetworkRequest)
    /\ (m_raised # None /\ m_raised[1].type = "FileWriteError") =>
          /\ m_calls = SubSeq(MainSteps, 1, 3)
          /\ pc = "uncalled"
          /\ NoNetworkRequest
          /\ files = files0

C24_Witness ==
    /\ m_pc = "exited"
    /\ m_raised = Raised("FileWriteError", 0)
    /\ m_calls = SubSeq(MainSteps, 1, 3)
    /\ exit_code = Some(2)

\* ---- parser.py: extract_image_urls

Returned == IF e_result = None THEN {} ELSE {e_result[1][k] : k \in 1..Len(e_result[1])}

HTTP == <<"h", "t", "t", "p">>
HTTPS == <<"h", "t", "t", "p", "s">>

\* C25: every URL extract_image_urls returns for an http or https page
\* has scheme http or https; no URL of a non-fetchable scheme is returned.
\* The code skips only the schemes data, javascript and mailto.
C25_OnlyFetchableSchemes ==
    \A url \in Returned : url_scheme(url) \in {HTTP, HTTPS}

\* an ftp URL with a supported extension is returned
C25_FtpReturned == FTP_C_A_JPG \in Returned



\* the img elements whose src is non-empty and resolves to an http or
\* https URL
Fetchable(k) ==
    /\ ~blank(e_html[k])
    /\ url_scheme(absolute_url(e_base, e_html[k][1])) \in {HTTP, HTTPS}

\* C26 as stated: every img element with a non-empty src of a fetchable
\* scheme contributes its absolute URL, whatever the extension of its path.
C26_EveryImgContributes ==
    e_result # None =>
        \A k \in 1..Len(e_html) :
            Fetchable(k) => absolute_url(e_base, e_html[k][1]) \in Returned

\* C26 (amended): every img element with a non-empty src that resolves to
\* an http or https URL whose path ends, in any letter case, in one of the
\* supported image extensions contributes its absolute URL; such an
\* element with any other path contributes nothing.
C26_SupportedImgsContribute ==
    e_result # None =>
        \A k \in 1..Len(e_html) :
            Fetchable(k) =>
                LET url == absolute_url(e_base, e_html[k][1])
                    name == lower(url_path(url))
                IN (url \in Returned) <=>
                       \E ext \in SUPPORTED_EXTENSIONS :
                           /\ Len(name) >= Len(ext)
                           /\ from_position(name, Len(name) - Len(ext) + 1) = ext
                           /\ \A m \in (Len(name) - Len(ext) + 2)..Len(name) : name[m] # "."

\* an upper-case .JPG is returned beside a dropped path with no extension
C26_Witness ==
    /\ e_result # None
    /\ e_base = BASE_HTTP
    /\ e_html = <<Some(SLASH_UPPER_A_JPG), Some(SLASH_A)>>
    /\ Returned = {<<"h", "t", "t", "p", ":", "/", "/", "h", "/", "A", ".", "J", "P", "G">>}


\* C28: the list extract_image_urls returns has no two equal elements and
\* holds only absolute URLs (each has a scheme; a src without one takes the
\* scheme of the page URL); img elements with the same src yield one
\* candidate, so the list is no longer than the number of distinct src values.
C28_DistinctAbsoluteUrls ==
    e_result # None =>
        LET list == e_result[1]
        IN /\ \A i, j \in 1..Len(list) : i # j => list[i] # list[j]
           /\ \A i \in 1..Len(list) : url_scheme(list[i]) # <<>>
           /\ \A k \in 1..Len(e_html) :
                  ~blank(e_html[k]) /\ url_scheme(e_html[k][1]) = <<>> =>
                      \A i \in 1..Len(list) :
                          list[i] = absolute_url(e_base, e_html[k][1]) =>
                              url_scheme(list[i]) = url_scheme(e_base)
           /\ Len(list) <= Cardinality({e_html[k] : k \in 1..Len(e_html)})

\* two img elements with the same relative src gave one absolute URL
C28_Witness ==
    /\ e_base = BASE_HTTP
    /\ e_html = <<Some(A_JPG), Some(A_JPG)>>
    /\ e_result = Some(<<HTTP_H_D_A_JPG>>)


\* ---- downloader.py: download_image

\* C27: when the server answers with an HTTP error status s, download_image
\* raises DownloadError with the url and status_code = s; for a timeout,
\* connection error, redirect loop or other request error it raises
\* DownloadError with status_code None.
C27_StatusCarried ==
    d_outcome # None =>
        /\ d_reply[1].kind = "response" /\ d_reply[1].status_code >= 400 =>
               d_outcome = DownloadError(d_reply[1], Some(d_reply[1].status_code))
        /\ d_reply[1].kind \in RequestErrors =>
               d_outcome = DownloadError(d_reply[1], None)

\* a 404 answer ended in a DownloadError without status code
C27_StatusLost ==
    /\ d_reply # None
    /\ d_reply[1].kind = "response"
    /\ d_reply[1].status_code = 404
    /\ d_outcome = DownloadError(d_reply[1], None)


\* ---- termination

ProbeReturned == l_path # None

C29_ProbedPastTaken ==
    /\ l_name = X_JPG
    /\ l_counter = MaxCycles + 1
    /\ l_path = Some(new_filename(stem(X_JPG), MaxCycles + 1, suffix(X_JPG)))


\* ---- resolve-then-write

\* C30: whenever a write is pending, the path selected for it is still
\* free and is still the one generate_unique_filename selects for the
\* directory as it is now: nothing has touched the directory since the
\* existence checks, and the last step the run took was the resolution for
\* the candidate now being written.
C30_SelectedPathStillFree ==
    pc = "save" =>
        /\ unique_path # None
        /\ unique_path[1] \notin files
        /\ unique_path[1] =
              generate_unique_filename(files, derive_filename(candidates[index], index))
        /\ touched = index

\* the second x.jpg of a run waits to be written to x_2.jpg, after the
\* first was saved as x_1.jpg beside the x.jpg that was already there
C30_Witness ==
    /\ pc = "save"
    /\ ~config.use_playwright
    /\ files0 = {X_JPG, X_PNG}
    /\ index = 2
    /\ candidates[1] = X_JPG
    /\ candidates[2] = X_JPG
    /\ files = files0 \cup {X_N(1)}
    /\ unique_path = Some(X_N(2))

====
